---- MODULE Spec2Model ----
(***************************************************************************)
(* A model of the ring-buffer message queue of src/src/messagequeue.rs     *)
(* over the page-mapped store of src/src/backingstore.rs, of the HTTP/1.1  *)
(* decoder of src/src/http.rs and of the parsers of src/src/lib/parser.rs. *)
(*                                                                         *)
(* One producer thread (the MessageQueueSender) and the threads that hold  *)
(* MessageQueueReader handles run interleaved.  A step of the model is one *)
(* access to shared memory (an atomic load or store of write_ptr/read_ptr, *)
(* or one BackingStore::get / BackingStore::set) together with the local   *)
(* computation that follows it up to the next shared access.  The atomics  *)
(* are Acquire/Release; each load and store takes effect at its step.      *)
(*                                                                         *)
(* The decoder and the parsers are sequential: HttpQuery::from_string and  *)
(* ParserEvaluator::evaluate are functions of their input, computed here   *)
(* as the code computes them, a panic being one of their outcomes.         *)
(***************************************************************************)
EXTENDS Integers, Sequences, FiniteSets, TLC

\* ---------------------------------------------------------------- bounds
\* Largest num_elements passed to message_queue (0 and 1 are the invalid sizes).
MaxCap == 3
\* Largest size_of::<T>() of the queues created for their mapping alone.
MaxSize == 8
\* Largest number of successful sends of one run.
MaxSends == 6

\* Largest number of successful reads after which read() is still called.
MaxReads == 7
\* Largest number of successful sends of a run with blocking_read.
MaxSendsBlocking == 1
\* The same two bounds for the runs with two readers.
MaxSendsMR == 2
MaxReadsMR == 3
\* Largest number of successful sends of a run in which a second handle
\* calls available().
MaxSendsObs == 3
\* The same two bounds for the runs in which handles are dropped.
MaxSendsDrop == 2
MaxReadsDrop == 2
\* Longest input of from_string drawn byte by byte.
MaxRaw == 3
\* Longest header line drawn byte by byte.
MaxLine == 4
\* Longest run of CR/LF bytes put before a request.
MaxLead == 3
\* Largest number of headers of a serialised request.
MaxHeaders == 2
\* Longest input of a parser of src/src/lib/parser.rs.
MaxStr == 3
\* Largest peek_number besides the ones next to usize::MAX.
MaxPeek == 3

\* ------------------------------------------------------ program constants
\* blocking_read: `for _ in 0..50`
BusyTries == 50
\* blocking_read: the last threshold of `match count`; past it the sleep
\* duration no longer depends on count, so the model keeps count saturated.
CountSat == 500
\* A slot of the fresh anonymous mapping (the kernel hands out zero pages).
Zeroed == 0
\* What BackingStore::get may copy out of a slot that BackingStore::set is
\* writing at the same time: neither the old nor the new value.
Torn == -1

\* The reader returned by message_queue and its clone.
ReaderIds == {"rx", "rx2"}

VARIABLES
    \* message_queue(num_elements): its argument, the mmap outcome, the result,
    \* size_of::<T>() and the length in bytes of the mapping mmap returned
    qstate, newArg, mmapRefused, mmapCalls, elemSize, mapLen,
    \* MessageQueueInternal
    len, write_ptr, read_ptr, store,
    \* the reader handles that exist
    readers,
    \* how many sends and reads the run goes on for (fixed by Init)
    budget,
    \* the producer thread: position, dist()'s locals, send's locals, last result
    spc, sdw, sdr, swptr, sval, sres,
    \* a reader thread: position, operation, dist()'s writer_pos,
    \* get_current_val's rpos and val, last result
    rpc, rop, rdw, rpos, rval, rres,
    \* blocking_read: iterations of the busy loop, count, last sleep (us)
    bi, bcount, bdur,
    \* history: values of the successful sends, the successful reads
    \* (reader, slot, value), reads completed when send last failed (-1: never)
    sentSeq, readLog, fullAt,
    \* observers of the call in progress (see Track)
    sDirty, sSawFull, rDirty, rSawEmpty, armed, quiet, seen, txIdle,
    \* the sender handle ("none", "live", "dropped"), whether the store is
    \* still mapped, the reads completed when the sender was dropped (-1: not
    \* dropped), and whether a slot was accessed while unmapped
    sender, mapped, readAtDrop, strayAccess,
    \* HttpQuery::from_string: its argument, what it returned, and the
    \* request the argument was serialised from (when it was)
    q, hq, orig,
    \* ParserEvaluator::evaluate(string, state): the string, ParserState.pos,
    \* the parser evaluated, its result, the position inside TryOr::evaluate,
    \* and the cursor at the call
    estr, state, expr, eres, epc, entry

createVars == <<qstate, newArg, mmapRefused, mmapCalls, elemSize, mapLen>>
sharedVars == <<len, write_ptr, read_ptr, store>>
senderVars == <<spc, sdw, sdr, swptr, sval, sres>>
readerVars == <<rpc, rop, rdw, rpos, rval, rres>>
blockVars  == <<bi, bcount, bdur>>
histVars   == <<sentSeq, readLog, fullAt>>
trackVars  == <<sDirty, sSawFull, rDirty, rSawEmpty, armed, quiet, seen, txIdle, strayAccess>>
handleVars == <<sender, mapped, readAtDrop>>
parserVars == <<q, hq, orig>>
combVars   == <<estr, state, expr, eres, epc, entry>>
queueVars == <<createVars, sharedVars, readers, budget, senderVars, readerVars, blockVars,
               histVars, trackVars, handleVars>>
vars == <<queueVars, parserVars, combVars>>

\* ------------------------------------------------------- pure functions

\* MessageQueueInternal::dist on the two loaded positions.
DistNoWrap(l, writer_pos, reader_pos) ==
    IF writer_pos < reader_pos THEN reader_pos - writer_pos
                               ELSE writer_pos - reader_pos

Dist(l, writer_pos, reader_pos) ==
    IF writer_pos < reader_pos THEN l + writer_pos - reader_pos
                               ELSE writer_pos - reader_pos

\* send: `self.internal.dist() == self.internal.len-1`
SendIsFullOffByOne(d, l) == d = l

SendIsFull(d, l) == d = l - 1

\* is_ready: `self.internal.dist() > 0`
IsReadyOffByOne(d) == d > 1

IsReady(d) == d > 0

\* `(wptr+1)%self.internal.len`, `(rpos+1)%self.internal.len`
NextIndexNoWrap(p, l) == p + 1

NextIndex(p, l) == (p + 1) % l

\* BackingStore::new, `bytes` being what `len*mem::size_of::<T>()` came to:
\* Err(AllocationFailed) when mmap refuses, as it does a length of 0, else
\* Ok(the mapping): the slots of `size` bytes that lie within its `bytes` bytes
BackingStoreNew(l, size, bytes, refused) ==
    IF refused \/ bytes = 0
    THEN [ok |-> FALSE, data |-> <<>>]
    ELSE [ok |-> TRUE, data |-> [i \in 0..((bytes \div size) - 1) |-> Zeroed]]

\* BackingStore::get: a bitwise copy of the slot
BackingStoreGet(st, pos) == st[pos]

\* BackingStore::set: overwrites the slot
BackingStoreSet(st, pos, val) == [st EXCEPT ![pos] = val]

\* blocking_read: `match count { 0..10 => 35, 10..100 => 80, 100..500 => 250, _ => 500 }`
SleepMicros(count) ==
    CASE count >= 0 /\ count < 10    -> 35
      [] count >= 10 /\ count < 100  -> 80
      [] count >= 100 /\ count < 500 -> 250
      [] OTHER                       -> 500

\* ------------------------------------------------------------ observers

Pending == <<"pending", 0>>
None    == <<"None", 0>>
Some(v) == <<"Some", v>>

ReadVals == [i \in 1..Len(readLog) |-> readLog[i].val]

IsPrefix(s, t) == Len(s) <= Len(t) /\ \A i \in 1..Len(s) : s[i] = t[i]

\* Track(who) closes every action: it observes the step just taken by thread
\* `who` and records, for the call in progress of each thread,
\*   sDirty     : a step of this send changed write_ptr, read_ptr or a slot
\*   sSawFull   : at some instant of this send len-1 items were unread
\*   rDirty[r]  : a step of this read changed write_ptr, read_ptr or a slot
\*   rSawEmpty[r] : at some instant of this read no item was unread
\*   armed[r]   : r's last is_ready() returned true and r has not read since
\*   quiet[r]   : no other thread was in a call or took a step during this
\*                available()
\*   seen[r]    : the numbers of unread items there were at the instants of
\*                this available(), from its call to its return
\*   txIdle[r]  : the producer thread was outside send during the whole of
\*                this available() (as when it is the thread that calls it)
\*   strayAccess : a BackingStore::set or ::get ran after the munmap
\* They are kept until the thread's next call; the ones nothing asks about (a
\* send that succeeded, a reader in another operation) are FALSE.
Track(who) ==
    LET changed == <<write_ptr', read_ptr', store'>> # <<write_ptr, read_ptr, store>>
        unread  == Len(sentSeq') - Len(readLog')
        sendOk  == spc' = "idle" /\ sres' # "MessageQueueFull"
    IN
    /\ sDirty' = IF sendOk THEN FALSE
                 ELSE IF who = "tx"
                 THEN (IF spc = "idle" THEN FALSE ELSE sDirty) \/ changed
                 ELSE sDirty
    /\ sSawFull' = IF sendOk THEN FALSE
                   ELSE IF who = "tx" /\ spc = "idle" THEN unread = len' - 1
                   ELSE IF spc # "idle" THEN sSawFull \/ unread = len' - 1
                   ELSE sSawFull
    /\ rDirty' = [r \in ReaderIds |->
                    IF rop'[r] # "read" THEN FALSE
                    ELSE IF who = r
                    THEN (IF rpc[r] = "idle" THEN FALSE ELSE rDirty[r]) \/ changed
                    ELSE rDirty[r]]
    /\ rSawEmpty' = [r \in ReaderIds |->
                    IF rop'[r] # "read" THEN FALSE
                    ELSE IF who = r /\ rpc[r] = "idle" THEN unread = 0
                    ELSE IF rpc[r] # "idle" THEN rSawEmpty[r] \/ unread = 0
                    ELSE rSawEmpty[r]]
    /\ armed' = [r \in ReaderIds |->
                    IF who = r /\ rpc[r] # "idle" /\ rpc'[r] = "idle" /\ rop[r] = "is_ready"
                    THEN rres'[r] = <<"bool", TRUE>>
                    ELSE IF who = r /\ rpc[r] = "idle" /\ rop[r] = "read"
                    THEN FALSE
                    ELSE armed[r]]
    /\ quiet' = [r \in ReaderIds |->
                    IF rop'[r] # "available" THEN FALSE
                    ELSE IF who = r
                    THEN IF rpc[r] = "idle"
                         THEN spc = "idle" /\ \A o \in ReaderIds \ {r} : rpc[o] = "idle"
                         ELSE quiet[r]
                    ELSE FALSE]
    /\ seen' = [r \in ReaderIds |->
                    IF rop'[r] # "available" THEN {}
                    ELSE IF who = r /\ rpc[r] = "idle" THEN {unread}
                    ELSE IF rpc[r] # "idle" THEN seen[r] \cup {unread}
                    ELSE seen[r]]
    /\ txIdle' = [r \in ReaderIds |->
                    IF rop'[r] # "available" THEN FALSE
                    ELSE IF who = r /\ rpc[r] = "idle" THEN spc = "idle"
                    ELSE IF rpc[r] # "idle" THEN txIdle[r] /\ who # "tx"
                    ELSE txIdle[r]]
    /\ strayAccess' = (strayAccess \/
                        (~mapped /\ \/ (who = "tx" /\ spc = "set")
                                    \/ (who \in ReaderIds /\ rpc[who] = "gcv_get")))


\* ------------------------------------------------- the HTTP/1.1 decoder
\* src/src/http.rs.  A byte string is a sequence of byte values; the cursor
\* `pos` counts from 0 as in the source, so string[pos] is s[pos + 1] here.

\* b'\r', b'\n', b' ', b':'
CR == 13
LF == 10
SP == 32
COLON == 58

\* b'a' (with b'b' next to it: bytes that frame nothing) and b'/'
Letter == 97
Slash == 47

\* b"\r\n"
CRLF == <<CR, LF>>

\* b"HTTP/1.1"
HTTP11 == <<72, 84, 84, 80, 47, 49, 46, 49>>

\* HTTPVerb::parse_from_utf8: the byte strings of its match arms
VerbTable ==
    [GET     |-> <<71, 69, 84>>,
     POST    |-> <<80, 79, 83, 84>>,
     PUT     |-> <<80, 85, 84>>,
     HEAD    |-> <<72, 69, 65, 68>>,
     DELETE  |-> <<68, 69, 76, 69, 84, 69>>,
     OPTIONS |-> <<79, 80, 84, 73, 79, 78, 83>>,
     TRACE   |-> <<84, 82, 65, 67, 69>>,
     CONNECT |-> <<67, 79, 78, 78, 69, 67, 84>>]

\* A verb matching that ignores the case of ASCII letters.
ParseFromUtf8AnyCase(verb) ==
    LET Up(b) == IF b >= 97 /\ b <= 122 THEN b - 32 ELSE b
        up == [i \in 1..Len(verb) |-> Up(verb[i])]
    IN IF \E v \in DOMAIN VerbTable : VerbTable[v] = up
       THEN <<"Some", CHOOSE v \in DOMAIN VerbTable : VerbTable[v] = up>>
       ELSE <<"None", "">>

\* HTTPVerb::parse_from_utf8: Some(verb) on an exact match, else None
ParseFromUtf8(verb) ==
    IF \E v \in DOMAIN VerbTable : VerbTable[v] = verb
    THEN <<"Some", CHOOSE v \in DOMAIN VerbTable : VerbTable[v] = verb>>
    ELSE <<"None", "">>

\* `self.string[self.pos..].starts_with(cmp)`, for pos <= len
StartsWith(string, pos, cmp) ==
    /\ Len(string) - pos >= Len(cmp)
    /\ \A i \in 1..Len(cmp) : string[pos + i] = cmp[i]

\* An advance_until_any whose `while` is an `if`: it skips one byte at most.
AdvanceUntilAnyOnce(string, pos, cmp) ==
    IF pos # Len(string) /\ string[pos + 1] \in cmp
    THEN [kind |-> IF pos + 1 = Len(string) THEN "EOF" ELSE "Ok", pos |-> pos + 1]
    ELSE [kind |-> "Ok", pos |-> pos]

\* Parser::advance_until_any: the cursor it leaves and Ok(()) or Err(EOF)
RECURSIVE AdvanceUntilAny(_, _, _)
AdvanceUntilAny(string, pos, cmp) ==
    IF pos # Len(string) /\ string[pos + 1] \in cmp
    THEN IF pos + 1 = Len(string)
         THEN [kind |-> "EOF", pos |-> pos + 1]
         ELSE AdvanceUntilAny(string, pos + 1, cmp)
    ELSE [kind |-> "Ok", pos |-> pos]

\* Parser::get_until from cursor pos, old_pos being the cursor at entry:
\* Ok(the bytes up to cmp) with the cursor past cmp, Err(EOF), or the panic
\* of `self.string[self.pos..]` when pos has passed the length.
RECURSIVE GetUntilFrom(_, _, _, _)
GetUntilFrom(string, old_pos, pos, cmp) ==
    IF pos > Len(string)
    THEN [kind |-> "panic", res |-> <<>>, pos |-> pos]
    ELSE IF StartsWith(string, pos, cmp)
    THEN [kind |-> "Ok", res |-> SubSeq(string, old_pos + 1, pos), pos |-> pos + Len(cmp)]
    ELSE IF pos + 1 = Len(string)
    THEN [kind |-> "EOF", res |-> <<>>, pos |-> pos + 1]
    ELSE GetUntilFrom(string, old_pos, pos + 1, cmp)

GetUntil(string, pos, cmp) == GetUntilFrom(string, pos, pos, cmp)

\* Parser::get_until_eof
GetUntilEof(string, pos) == SubSeq(string, pos + 1, Len(string))

\* from_string's `for i in 1..header.len()-1`: the first i of that range with
\* header[i] == b':', else 0
ColonPos(header) ==
    LET found == {i \in 1..(Len(header) - 2) : header[i + 1] = COLON}
    IN IF found = {} THEN 0 ELSE CHOOSE i \in found : \A j \in found : i <= j

\* HashMap::insert
HeadersInsert(headers, name, value) ==
    [n \in DOMAIN headers \cup {name} |-> IF n = name THEN value ELSE headers[n]]

\* What from_string returns: Ok(HttpQuery), Err(ParserError) or a panic.
Failed(kind) == [res |-> kind, verb |-> "", url |-> <<>>, headers |-> <<>>, body |-> <<>>]

\* from_string has not been called.
NotCalled == Failed("none")

\* The argument was not serialised from a request.
NoOrigin == [lead |-> <<>>, verb |-> "", url |-> <<>>, headers |-> <<>>, body |-> <<>>]

\* from_string's header `loop`, entered with the cursor at pos
RECURSIVE HeaderLoop(_, _, _)
HeaderLoop(string, pos, headers) ==
    LET h == GetUntil(string, pos, CRLF)
        header == h.res
        cpos == ColonPos(header)
    IN IF h.kind # "Ok" THEN [kind |-> h.kind, headers |-> headers, pos |-> h.pos]
       ELSE IF Len(header) = 0 THEN [kind |-> "Ok", headers |-> headers, pos |-> h.pos]
       ELSE IF cpos = 0 THEN [kind |-> "InvalidData", headers |-> headers, pos |-> h.pos]
       ELSE HeaderLoop(string, h.pos,
                       HeadersInsert(headers, SubSeq(header, 1, cpos),
                                     SubSeq(header, cpos + 2, Len(header))))

\* A version check that only looks at the first eight bytes.
VersionOkPrefix(token) == StartsWith(token, 0, HTTP11)

\* from_string: `parser.get_until(b"\r\n")? != b"HTTP/1.1"` is false
VersionOk(token) == token = HTTP11

\* HttpQuery::from_string
FromString(string) ==
    LET skip == AdvanceUntilAny(string, 0, {CR, LF})
        v == GetUntil(string, skip.pos, <<SP>>)
        verb == IF ParseFromUtf8(v.res)[1] = "Some" THEN ParseFromUtf8(v.res)[2] ELSE "GET"
        u == GetUntil(string, v.pos, <<SP>>)
        ver == GetUntil(string, u.pos, CRLF)
        hs == HeaderLoop(string, ver.pos, <<>>)
    IN IF skip.kind # "Ok" THEN Failed(skip.kind)
       ELSE IF v.kind # "Ok" THEN Failed(v.kind)
       ELSE IF u.kind # "Ok" THEN Failed(u.kind)
       ELSE IF ver.kind # "Ok" THEN Failed(ver.kind)
       ELSE IF ~VersionOk(ver.res) THEN Failed("InvalidData")
       ELSE IF hs.kind # "Ok" THEN Failed(hs.kind)
       ELSE [res |-> "Ok", verb |-> verb, url |-> u.res, headers |-> hs.headers,
             body |-> GetUntilEof(string, hs.pos)]


\* ------------------------------------------------- the parser framework
\* src/src/lib/parser.rs.  A parser is a tagged tuple: <<"ReaderUntil", p>>,
\* <<"Peeker", n>>, <<"ConsumerToEnd">>, <<"Consumer", predicate>>,
\* <<"Match", p>>, <<"Combine", pa, pb>>, <<"TryOr", pa, pb>>.  An evaluation
\* yields [kind, out, pos]: kind is "Ok", the ParserError or "panic", out the
\* Output of an Ok, pos the cursor it leaves in the ParserState.

\* usize::MAX (of a 16-bit target: the arithmetic is the same at every width)
UsizeMax == 65535

Yield(kind, out, pos) == [kind |-> kind, out |-> out, pos |-> pos]

\* An index_size that also refuses the slice that ends at the end of input.
IndexSizeStrict(str, pos, start, size) ==
    IF size > UsizeMax - start THEN Yield("Overflow", <<>>, pos)
    ELSE IF start + size >= Len(str) THEN Yield("OutOfBoundsAccess", <<>>, pos)
    ELSE Yield("Ok", SubSeq(str, pos + 1, start + size), pos)

\* ParserState::index_size (self.pos is pos): checked_add, the bound check,
\* `&string[self.pos..end]`
IndexSize(str, pos, start, size) ==
    IF size > UsizeMax - start THEN Yield("Overflow", <<>>, pos)
    ELSE IF start + size > Len(str) THEN Yield("OutOfBoundsAccess", <<>>, pos)
    ELSE Yield("Ok", SubSeq(str, pos + 1, start + size), pos)

\* ParserState::get_n
GetN(str, pos, size) == IndexSize(str, pos, pos, size)

\* ReaderUntil::evaluate with the cursor at pos, old_pos being state.pos at
\* entry; `string[state.pos..]` panics once pos has passed the length.
RECURSIVE ReaderUntilFrom(_, _, _, _)
ReaderUntilFrom(end_pattern, str, old_pos, pos) ==
    IF pos > Len(str) THEN Yield("panic", <<>>, pos)
    ELSE IF StartsWith(str, pos, end_pattern)
    THEN Yield("Ok", SubSeq(str, old_pos + 1, pos), pos)
    ELSE IF pos + 1 = Len(str)
    THEN Yield("Ok", SubSeq(str, old_pos + 1, pos + 1), pos + 1)
    ELSE ReaderUntilFrom(end_pattern, str, old_pos, pos + 1)

\* A Peeker that sets the cursor to peek_number instead of advancing it.
PeekerSetsCursor(peek_number, str, pos) ==
    LET res == GetN(str, pos, peek_number)
    IN IF res.kind # "Ok" THEN res ELSE Yield("Ok", res.out, peek_number)

\* Peeker::evaluate
Peeker(peek_number, str, pos) ==
    LET res == GetN(str, pos, peek_number)
    IN IF res.kind # "Ok" THEN res ELSE Yield("Ok", res.out, pos + peek_number)

\* ConsumerToEnd::evaluate
ConsumerToEnd(str, pos) ==
    LET res == GetN(str, pos, Len(str) - pos)
    IN IF res.kind # "Ok" THEN res ELSE Yield("Ok", res.out, Len(str))

\* The predicates given to consume_while_predicate: "letters" takes one
\* byte at a time while it is a letter; "strict" does the same and fails
\* with InvalidData on any other byte; "pairs" asks for two bytes at every
\* letter, whether or not a second byte is there.
Predicate(predicate, data) ==
    IF data = <<>> THEN [kind |-> "Ok", n |-> 0]
    ELSE IF data[1] = Letter THEN [kind |-> "Ok", n |-> IF predicate = "pairs" THEN 2 ELSE 1]
    ELSE IF predicate = "strict" THEN [kind |-> "InvalidData", n |-> 0]
    ELSE [kind |-> "Ok", n |-> 0]

\* Consumer::evaluate, `delta` bytes into its loop
RECURSIVE ConsumerLoop(_, _, _, _)
ConsumerLoop(predicate, str, pos, delta) ==
    IF pos + delta > Len(str) THEN Yield("panic", <<>>, pos)
    ELSE LET offset == Predicate(predicate, SubSeq(str, pos + delta + 1, Len(str)))
         IN IF offset.kind # "Ok" THEN Yield(offset.kind, <<>>, pos)
            ELSE IF offset.n = 0 THEN Yield("Ok", SubSeq(str, pos + 1, pos + delta), pos + delta)
            ELSE ConsumerLoop(predicate, str, pos, delta + offset.n)

\* Match::evaluate
Match(pattern, str, pos) ==
    IF Len(str) - pos < Len(pattern) THEN Yield("InvalidState", <<>>, pos)
    ELSE Yield("Ok", \A i \in 1..Len(pattern) : str[pos + i] = pattern[i], pos)

\* evaluate of the extractors and of Combine
RECURSIVE Evaluate(_, _, _)
Evaluate(p, str, pos) ==
    CASE p[1] = "ReaderUntil"   -> ReaderUntilFrom(p[2], str, pos, pos)
      [] p[1] = "Peeker"        -> Peeker(p[2], str, pos)
      [] p[1] = "ConsumerToEnd" -> ConsumerToEnd(str, pos)
      [] p[1] = "Consumer"      -> ConsumerLoop(p[2], str, pos, 0)
      [] p[1] = "Match"         -> Match(p[2], str, pos)
      [] p[1] = "Combine"       ->
            LET res_a == Evaluate(p[2], str, pos)
                res_b == Evaluate(p[3], str, res_a.pos)
            IN IF res_a.kind # "Ok" THEN res_a
               ELSE IF res_b.kind # "Ok" THEN res_b
               ELSE Yield("Ok", <<res_a.out, res_b.out>>, res_b.pos)

\* A read_until that puts the receiver first and the new extractor second.
read_until_appended(self, end_pattern) ==
    <<"Combine", self, <<"ReaderUntil", end_pattern>>>>

\* Parser::read_until: `Combine::new(ReaderUntil { end_pattern }, self)`
read_until(self, end_pattern) ==
    <<"Combine", <<"ReaderUntil", end_pattern>>, self>>

\* Parser::consume_while_predicate: `Combine::new(Consumer { predicate }, self)`
consume_while_predicate(self, predicate) ==
    <<"Combine", <<"Consumer", predicate>>, self>>

\* Parser::consume_to_end: `Combine::new(ConsumerToEnd {}, self)`
consume_to_end(self) ==
    <<"Combine", <<"ConsumerToEnd">>, self>>

\* Parser::peek: `Combine::new(Peeker { peek_number: num }, self)`
peek(self, num) ==
    <<"Combine", <<"Peeker", num>>, self>>

\* No parser is evaluated.
NotEvaluated == Yield("none", <<>>, 0)

NoEvaluate ==
    /\ estr = <<>> /\ state = 0 /\ expr = <<"none">>
    /\ eres = NotEvaluated /\ epc = "off" /\ entry = 0

\* ------------------------------------------------------------- creation

\* size_of::<usize>(), the items of the tests, on the target of UsizeMax
ItemSize == 2

\* Before MessageQueueSender::<T>::new is called, size_of::<T>() being size.
InitQueueOf(sends, reads, size) ==
    /\ budget = [sends |-> sends, reads |-> reads]
    /\ qstate = "none" /\ newArg = -1 /\ mmapRefused = FALSE /\ mmapCalls = 0
    /\ elemSize = size /\ mapLen = 0
    /\ len = 0 /\ write_ptr = 0 /\ read_ptr = 0 /\ store = <<>>
    /\ readers = {}
    /\ spc = "idle" /\ sdw = 0 /\ sdr = 0 /\ swptr = 0 /\ sval = 0 /\ sres = "none"
    /\ rpc = [r \in ReaderIds |-> "idle"]
    /\ rop = [r \in ReaderIds |-> "none"]
    /\ rdw = [r \in ReaderIds |-> 0]
    /\ rpos = [r \in ReaderIds |-> 0]
    /\ rval = [r \in ReaderIds |-> 0]
    /\ rres = [r \in ReaderIds |-> Pending]
    /\ bi = [r \in ReaderIds |-> 0]
    /\ bcount = [r \in ReaderIds |-> 0]
    /\ bdur = [r \in ReaderIds |-> 0]
    /\ sentSeq = <<>> /\ readLog = <<>> /\ fullAt = -1
    /\ sDirty = FALSE /\ sSawFull = FALSE
    /\ rDirty = [r \in ReaderIds |-> FALSE]
    /\ rSawEmpty = [r \in ReaderIds |-> FALSE]
    /\ armed = [r \in ReaderIds |-> FALSE]
    /\ quiet = [r \in ReaderIds |-> FALSE]
    /\ seen = [r \in ReaderIds |-> {}]
    /\ txIdle = [r \in ReaderIds |-> FALSE]
    /\ sender = "none" /\ mapped = FALSE /\ readAtDrop = -1 /\ strayAccess = FALSE

InitQueue(sends, reads) == InitQueueOf(sends, reads, ItemSize)

\* A run of the queue: no request is parsed.
InitWith(sends, reads) ==
    InitQueue(sends, reads) /\ q = <<>> /\ hq = NotCalled /\ orig = NoOrigin /\ NoEvaluate

Init == InitWith(MaxSends, MaxReads)

InitMR == InitWith(MaxSendsMR, MaxReadsMR)

InitBlocking == InitWith(MaxSendsBlocking, MaxSendsBlocking)

InitDrop == InitWith(MaxSendsDrop, MaxReadsDrop)

InitObs == InitWith(MaxSendsObs, MaxSendsObs)

\* MessageQueueSender::new: the size check, then the struct literal whose last
\* field maps the store (`?` turns AllocationFailed into MemoryAllocationFailed).
MinSizeOne(n) == n < 1

InvalidSize(n) == n < 2

\* `len*mem::size_of::<T>()`, a multiplication of two usize: past usize::MAX
\* it panics in a build with overflow checks and wraps in one without.
ByteLen(l, size) ==
    IF l * size > UsizeMax
    THEN {[kind |-> "panic", n |-> 0], [kind |-> "Ok", n |-> (l * size) % (UsizeMax + 1)]}
    ELSE {[kind |-> "Ok", n |-> l * size]}

\* message_queue(num_elements): MessageQueueSender::new, then new_reader.
message_queue(n, refused) ==
    /\ qstate = "none"
    /\ newArg' = n
    /\ IF InvalidSize(n)
       THEN /\ qstate' = "UnvalidSize"
            /\ UNCHANGED <<mmapRefused, mmapCalls, mapLen, sharedVars, readers>>
       ELSE \E bytes \in ByteLen(n, elemSize) :
            IF bytes.kind = "panic"
            THEN /\ qstate' = "panic"
                 /\ UNCHANGED <<mmapRefused, mmapCalls, mapLen, sharedVars, readers>>
            ELSE /\ mmapCalls' = mmapCalls + 1
                 /\ mmapRefused' = refused
                 /\ IF ~BackingStoreNew(n, elemSize, bytes.n, refused).ok
                    THEN /\ qstate' = "MemoryAllocationFailed"
                         /\ UNCHANGED <<mapLen, sharedVars, readers>>
                    ELSE /\ qstate' = "ok"
                         /\ mapLen' = bytes.n
                         /\ len' = n
                         /\ write_ptr' = 0
                         /\ read_ptr' = 0
                         /\ store' = BackingStoreNew(n, elemSize, bytes.n, refused).data
                         /\ readers' = {"rx"}
    /\ UNCHANGED elemSize
    /\ sender' = IF qstate' = "ok" THEN "live" ELSE sender
    /\ mapped' = (qstate' = "ok")
    /\ UNCHANGED <<budget, senderVars, readerVars, blockVars, histVars>>
    /\ UNCHANGED <<readAtDrop, parserVars, combVars>>
    /\ Track("new")

\* MessageQueueReader: #[derive(Clone)]
CloneReader ==
    /\ qstate = "ok"
    /\ readers = {"rx"}
    /\ readers' = {"rx", "rx2"}
    /\ UNCHANGED <<createVars, sharedVars, budget, senderVars, readerVars, blockVars, histVars>>
    /\ UNCHANGED <<handleVars, parserVars, combVars>>
    /\ Track("clone")

\* MessageQueueSender::new_reader: another handle on the same Arc.
new_reader(r) ==
    /\ qstate = "ok"
    /\ sender = "live" /\ spc = "idle"
    /\ r \notin readers
    /\ readers' = readers \cup {r}
    /\ UNCHANGED <<createVars, sharedVars, budget, senderVars, readerVars, blockVars, histVars>>
    /\ UNCHANGED <<handleVars, parserVars, combVars>>
    /\ Track("new_reader")

\* The Arc's strong count after a drop: the handles that remain.
ArcReleased(s, rs) == s # "live" /\ rs = {}

\* A sender that owns the mapping: dropping it unmaps the store at once.
DropSenderUnmaps ==
    /\ sender = "live" /\ spc = "idle"
    /\ sender' = "dropped"
    /\ mapped' = FALSE
    /\ readAtDrop' = Len(readLog)
    /\ UNCHANGED <<createVars, sharedVars, readers, budget, senderVars, readerVars, blockVars,
                   histVars, parserVars, combVars>>
    /\ Track("drop")

\* The sender handle goes out of scope (no send is in progress: send borrows
\* the handle).  Dropping the last Arc drops MessageQueueInternal and with it
\* the BackingStore, whose Drop calls munmap.
DropSender ==
    /\ sender = "live" /\ spc = "idle"
    /\ sender' = "dropped"
    /\ mapped' = IF ArcReleased("dropped", readers) THEN FALSE ELSE mapped
    /\ readAtDrop' = Len(readLog)
    /\ UNCHANGED <<createVars, sharedVars, readers, budget, senderVars, readerVars, blockVars,
                   histVars, parserVars, combVars>>
    /\ Track("drop")

\* A reader handle goes out of scope (it is in no call).
DropReader(r) ==
    /\ r \in readers /\ rpc[r] = "idle"
    /\ readers' = readers \ {r}
    /\ mapped' = IF ArcReleased(sender, readers \ {r}) THEN FALSE ELSE mapped
    /\ rop' = [rop EXCEPT ![r] = "none"]
    /\ rres' = [rres EXCEPT ![r] = Pending]
    /\ UNCHANGED <<rpc, rdw, rpos, rval>>
    /\ UNCHANGED <<createVars, sharedVars, budget, senderVars, blockVars, histVars,
                   sender, readAtDrop, parserVars, combVars>>
    /\ Track("drop")

\* ----------------------------------------------------- the producer thread

\* send(val) is called; the value is the number of this item (1, 2, ...), so
\* that every queued item is distinguishable.  A send that failed is retried
\* with the same value.
SendCall ==
    /\ qstate = "ok"
    /\ sender = "live"
    /\ spc = "idle"
    /\ Len(sentSeq) < budget.sends
    /\ spc' = "dist_w"
    /\ sval' = Len(sentSeq) + 1
    /\ sres' = "pending"
    /\ UNCHANGED <<sdw, sdr, swptr>>
    /\ UNCHANGED <<createVars, sharedVars, readers, budget, readerVars, blockVars, histVars>>
    /\ UNCHANGED <<handleVars, parserVars, combVars>>
    /\ Track("tx")

\* dist(): `let writer_pos = self.write_ptr.load(Ordering::Acquire);`
SendDistLoadW ==
    /\ spc = "dist_w"
    /\ sdw' = write_ptr
    /\ spc' = "dist_r"
    /\ UNCHANGED <<sdr, swptr, sval, sres>>
    /\ UNCHANGED <<createVars, sharedVars, readers, budget, readerVars, blockVars, histVars>>
    /\ UNCHANGED <<handleVars, parserVars, combVars>>
    /\ Track("tx")

\* A send that also writes its value into the slot when the queue is full.
SendDistLoadRStoresAnyway ==
    /\ spc = "dist_r"
    /\ sdr' = read_ptr
    /\ store' = BackingStoreSet(store, sdw, sval)
    /\ IF SendIsFull(Dist(len, sdw, read_ptr), len)
       THEN /\ spc' = "idle"
            /\ sres' = "MessageQueueFull"
            /\ fullAt' = Len(readLog)
       ELSE /\ spc' = "load_w"
            /\ UNCHANGED <<sres, fullAt>>
    /\ UNCHANGED <<sdw, swptr, sval>>
    /\ UNCHANGED <<createVars, len, write_ptr, read_ptr, readers, budget, readerVars, blockVars,
                   sentSeq, readLog>>
    /\ UNCHANGED <<handleVars, parserVars, combVars>>
    /\ Track("tx")

\* dist(): `let reader_pos = self.read_ptr.load(Ordering::Acquire);`, the
\* distance, and send's `if self.internal.dist() == self.internal.len-1`.
SendDistLoadR ==
    /\ spc = "dist_r"
    /\ sdr' = read_ptr
    /\ IF SendIsFull(Dist(len, sdw, read_ptr), len)
       THEN /\ spc' = "idle"
            /\ sres' = "MessageQueueFull"
            /\ fullAt' = Len(readLog)
       ELSE /\ spc' = "load_w"
            /\ UNCHANGED <<sres, fullAt>>
    /\ UNCHANGED <<sdw, swptr, sval>>
    /\ UNCHANGED <<createVars, sharedVars, readers, budget, readerVars, blockVars,
                   sentSeq, readLog>>
    /\ UNCHANGED <<handleVars, parserVars, combVars>>
    /\ Track("tx")

\* `let wptr = self.internal.write_ptr.load(Ordering::Relaxed);`
SendLoadW ==
    /\ spc = "load_w"
    /\ swptr' = write_ptr
    /\ spc' = "set"
    /\ UNCHANGED <<sdw, sdr, sval, sres>>
    /\ UNCHANGED <<createVars, sharedVars, readers, budget, readerVars, blockVars, histVars>>
    /\ UNCHANGED <<handleVars, parserVars, combVars>>
    /\ Track("tx")

\* A send that writes its value one slot further than the index it loaded.
SendSetNextSlot ==
    /\ spc = "set"
    /\ store' = BackingStoreSet(store, NextIndex(swptr, len), sval)
    /\ spc' = "store"
    /\ UNCHANGED <<sdw, sdr, swptr, sval, sres>>
    /\ UNCHANGED <<createVars, len, write_ptr, read_ptr, readers, budget, readerVars, blockVars,
                   histVars>>
    /\ UNCHANGED <<handleVars, parserVars, combVars>>
    /\ Track("tx")

\* `self.internal.backing_store.set(wptr, val);`
SendSet ==
    /\ spc = "set"
    /\ store' = BackingStoreSet(store, swptr, sval)
    /\ spc' = "store"
    /\ UNCHANGED <<sdw, sdr, swptr, sval, sres>>
    /\ UNCHANGED <<createVars, len, write_ptr, read_ptr, readers, budget, readerVars, blockVars,
                   histVars>>
    /\ UNCHANGED <<handleVars, parserVars, combVars>>
    /\ Track("tx")

\* `self.internal.write_ptr.store((wptr+1)%self.internal.len, Ordering::Release); Ok(())`
SendStore ==
    /\ spc = "store"
    /\ write_ptr' = NextIndex(swptr, len)
    /\ spc' = "idle"
    /\ sres' = "Ok"
    /\ sentSeq' = Append(sentSeq, sval)
    /\ UNCHANGED <<sdw, sdr, swptr, sval>>
    /\ UNCHANGED <<createVars, len, read_ptr, store, readers, budget, readerVars, blockVars,
                   readLog, fullAt>>
    /\ UNCHANGED <<handleVars, parserVars, combVars>>
    /\ Track("tx")

\* ------------------------------------------------------- a reader thread

\* Reader r calls op: every operation of a reader starts with dist().
Call(r, op) ==
    /\ qstate = "ok"
    /\ r \in readers
    /\ rpc[r] = "idle"
    /\ rpc' = [rpc EXCEPT ![r] = "dist_w"]
    /\ rop' = [rop EXCEPT ![r] = op]
    /\ rres' = [rres EXCEPT ![r] = Pending]
    /\ bdur' = [bdur EXCEPT ![r] = 0]
    /\ UNCHANGED <<rdw, rpos, rval, bi, bcount>>
    /\ UNCHANGED <<createVars, sharedVars, readers, budget, senderVars, histVars>>
    /\ UNCHANGED <<handleVars, parserVars, combVars>>
    /\ Track(r)

\* read() is called as long as fewer than MaxReads reads have succeeded (with
\* one reader no more reads succeed than sends; with two the bound is needed).
ReadCall(r) == Len(readLog) < budget.reads /\ Call(r, "read")

AvailableCall(r) == Call(r, "available")

IsReadyCall(r) == Call(r, "is_ready")

BlockingReadCall(r) == Call(r, "blocking_read")

\* dist(): `let writer_pos = self.write_ptr.load(Ordering::Acquire);`
DistLoadW(r) ==
    /\ rpc[r] = "dist_w"
    /\ rdw' = [rdw EXCEPT ![r] = write_ptr]
    /\ rpc' = [rpc EXCEPT ![r] = "dist_r"]
    /\ UNCHANGED <<rop, rpos, rval, rres>>
    /\ UNCHANGED <<createVars, sharedVars, readers, budget, senderVars, blockVars, histVars>>
    /\ UNCHANGED <<handleVars, parserVars, combVars>>
    /\ Track(r)

\* A blocking_read that gives up with None when the busy loop is over.
BlockingRetryGivesUp(r) ==
    IF bi[r] + 1 < BusyTries
    THEN /\ bi' = [bi EXCEPT ![r] = bi[r] + 1]
         /\ rpc' = [rpc EXCEPT ![r] = "dist_w"]
         /\ UNCHANGED <<bcount, bdur, rres>>
    ELSE /\ bi' = [bi EXCEPT ![r] = 0]
         /\ rpc' = [rpc EXCEPT ![r] = "idle"]
         /\ rres' = [rres EXCEPT ![r] = None]
         /\ UNCHANGED <<bcount, bdur>>

\* blocking_read after a read() that returned None: the next iteration of
\* `for _ in 0..50`, or of the sleeping `loop` (`count += 1`).
BlockingRetry(r) ==
    IF bi[r] < BusyTries
    THEN /\ bi' = [bi EXCEPT ![r] = bi[r] + 1]
         /\ rpc' = [rpc EXCEPT ![r] = IF bi[r] + 1 < BusyTries THEN "dist_w" ELSE "sleep"]
         /\ UNCHANGED <<bcount, bdur, rres>>
    ELSE /\ bcount' = [bcount EXCEPT ![r] = IF bcount[r] < CountSat THEN bcount[r] + 1
                                                                  ELSE CountSat]
         /\ rpc' = [rpc EXCEPT ![r] = "sleep"]
         /\ UNCHANGED <<bi, bdur, rres>>

\* dist(): `let reader_pos = self.read_ptr.load(Ordering::Acquire);`, the
\* distance, and what the caller does with it: available() returns it,
\* is_ready() returns dist() > 0, read() goes on to get_current_val or
\* returns None.
DistLoadR(r) ==
    /\ rpc[r] = "dist_r"
    /\ LET d == Dist(len, rdw[r], read_ptr) IN
       CASE rop[r] = "available" ->
              /\ rres' = [rres EXCEPT ![r] = <<"usize", d>>]
              /\ rpc' = [rpc EXCEPT ![r] = "idle"]
              /\ UNCHANGED blockVars
         [] rop[r] = "is_ready" ->
              /\ rres' = [rres EXCEPT ![r] = <<"bool", IsReady(d)>>]
              /\ rpc' = [rpc EXCEPT ![r] = "idle"]
              /\ UNCHANGED blockVars
         [] rop[r] = "read" ->
              /\ rres' = [rres EXCEPT ![r] = IF IsReady(d) THEN Pending ELSE None]
              /\ rpc' = [rpc EXCEPT ![r] = IF IsReady(d) THEN "gcv_load" ELSE "idle"]
              /\ UNCHANGED blockVars
         [] rop[r] = "blocking_read" ->
              IF IsReady(d)
              THEN /\ rpc' = [rpc EXCEPT ![r] = "gcv_load"]
                   /\ UNCHANGED <<rres, blockVars>>
              ELSE BlockingRetry(r)
    /\ rdw' = [rdw EXCEPT ![r] = 0]
    /\ UNCHANGED <<rop, rpos, rval>>
    /\ UNCHANGED <<createVars, sharedVars, readers, budget, senderVars, histVars>>
    /\ UNCHANGED <<handleVars, parserVars, combVars>>
    /\ Track(r)

\* get_current_val: `let rpos = self.internal.read_ptr.load(Ordering::Acquire);`
GetCurrentValLoad(r) ==
    /\ rpc[r] = "gcv_load"
    /\ rpos' = [rpos EXCEPT ![r] = read_ptr]
    /\ rpc' = [rpc EXCEPT ![r] = "gcv_get"]
    /\ UNCHANGED <<rop, rdw, rval, rres>>
    /\ UNCHANGED <<createVars, sharedVars, readers, budget, senderVars, blockVars, histVars>>
    /\ UNCHANGED <<handleVars, parserVars, combVars>>
    /\ Track(r)

\* What get(rpos) can return: the slot, unless the producer is at its set() of
\* the same slot.  The two plain accesses then race (a data race), and the
\* copy is the old value, the new one or a mix of both.
GetOutcomes(r) ==
    IF spc = "set" /\ swptr = rpos[r]
    THEN {BackingStoreGet(store, rpos[r]), sval, Torn}
    ELSE {BackingStoreGet(store, rpos[r])}

\* get_current_val: `let val = self.internal.backing_store.get(rpos);`
GetCurrentValGet(r) ==
    /\ rpc[r] = "gcv_get"
    /\ \E v \in GetOutcomes(r) : rval' = [rval EXCEPT ![r] = v]
    /\ rpc' = [rpc EXCEPT ![r] = "gcv_store"]
    /\ UNCHANGED <<rop, rdw, rpos, rres>>
    /\ UNCHANGED <<createVars, sharedVars, readers, budget, senderVars, blockVars, histVars>>
    /\ UNCHANGED <<handleVars, parserVars, combVars>>
    /\ Track(r)

\* A get_current_val that advances read_ptr by compare-and-swap and starts
\* over when another reader has moved it.
GetCurrentValStoreCas(r) ==
    /\ rpc[r] = "gcv_store"
    /\ IF read_ptr = rpos[r]
       THEN /\ read_ptr' = NextIndex(rpos[r], len)
            /\ rres' = [rres EXCEPT ![r] = Some(rval[r])]
            /\ rpc' = [rpc EXCEPT ![r] = "idle"]
            /\ readLog' = Append(readLog, [reader |-> r, slot |-> rpos[r], val |-> rval[r]])
            /\ bi' = [bi EXCEPT ![r] = 0]
            /\ bcount' = [bcount EXCEPT ![r] = 0]
       ELSE /\ rpc' = [rpc EXCEPT ![r] = "gcv_load"]
            /\ UNCHANGED <<read_ptr, rres, readLog, bi, bcount>>
    /\ rpos' = [rpos EXCEPT ![r] = 0]
    /\ rval' = [rval EXCEPT ![r] = 0]
    /\ UNCHANGED <<rop, rdw, bdur>>
    /\ UNCHANGED <<createVars, len, write_ptr, store, readers, budget, senderVars,
                   sentSeq, fullAt>>
    /\ UNCHANGED <<handleVars, parserVars, combVars>>
    /\ Track(r)

\* A get_current_val that stores rpos back instead of rpos+1.
GetCurrentValStoreNoAdvance(r) ==
    /\ rpc[r] = "gcv_store"
    /\ read_ptr' = rpos[r]
    /\ rres' = [rres EXCEPT ![r] = Some(rval[r])]
    /\ rpc' = [rpc EXCEPT ![r] = "idle"]
    /\ readLog' = Append(readLog, [reader |-> r, slot |-> rpos[r], val |-> rval[r]])
    /\ rpos' = [rpos EXCEPT ![r] = 0]
    /\ rval' = [rval EXCEPT ![r] = 0]
    /\ bi' = [bi EXCEPT ![r] = 0]
    /\ bcount' = [bcount EXCEPT ![r] = 0]
    /\ UNCHANGED <<rop, rdw, bdur>>
    /\ UNCHANGED <<createVars, len, write_ptr, store, readers, budget, senderVars,
                   sentSeq, fullAt>>
    /\ UNCHANGED <<handleVars, parserVars, combVars>>
    /\ Track(r)

\* get_current_val: `self.internal.read_ptr.store((rpos+1)%self.internal.len,
\* Ordering::Release); val`, which read() wraps in Some and blocking_read returns.
GetCurrentValStore(r) ==
    /\ rpc[r] = "gcv_store"
    /\ read_ptr' = NextIndex(rpos[r], len)
    /\ rres' = [rres EXCEPT ![r] = Some(rval[r])]
    /\ rpc' = [rpc EXCEPT ![r] = "idle"]
    /\ readLog' = Append(readLog, [reader |-> r, slot |-> rpos[r], val |-> rval[r]])
    /\ rpos' = [rpos EXCEPT ![r] = 0]
    /\ rval' = [rval EXCEPT ![r] = 0]
    /\ bi' = [bi EXCEPT ![r] = 0]
    /\ bcount' = [bcount EXCEPT ![r] = 0]
    /\ UNCHANGED <<rop, rdw, bdur>>
    /\ UNCHANGED <<createVars, len, write_ptr, store, readers, budget, senderVars,
                   sentSeq, fullAt>>
    /\ UNCHANGED <<handleVars, parserVars, combVars>>
    /\ Track(r)

\* blocking_read: `thread::sleep(Duration::from_micros(dur));` then read() again
BlockingSleep(r) ==
    /\ rpc[r] = "sleep"
    /\ bdur' = [bdur EXCEPT ![r] = SleepMicros(bcount[r])]
    /\ rpc' = [rpc EXCEPT ![r] = "dist_w"]
    /\ UNCHANGED <<bi, bcount>>
    /\ UNCHANGED <<rop, rdw, rpos, rval, rres>>
    /\ UNCHANGED <<createVars, sharedVars, readers, budget, senderVars, histVars>>
    /\ UNCHANGED <<handleVars, parserVars, combVars>>
    /\ Track(r)

\* -------------------------------------------------------- specifications

Create == \E n \in 0..MaxCap : \E refused \in BOOLEAN : message_queue(n, refused)

SenderStep ==
    \/ SendDistLoadW
    \/ SendDistLoadR
    \/ SendLoadW
    \/ SendSet
    \/ SendStore

\* One producer and the one reader of message_queue: send, read, available, is_ready.
Next ==
    \/ Create
    \/ SendCall
    \/ SenderStep
    \/ \E r \in readers : ReadCall(r)
    \/ \E r \in readers : AvailableCall(r)
    \/ \E r \in readers : IsReadyCall(r)
    \/ \E r \in readers : DistLoadW(r)
    \/ \E r \in readers : DistLoadR(r)
    \/ \E r \in readers : GetCurrentValLoad(r)
    \/ \E r \in readers : GetCurrentValGet(r)
    \/ \E r \in readers : GetCurrentValStore(r)

Spec == Init /\ [][Next]_vars

\* One producer, the reader and its clone, both calling read().
NextMR ==
    \/ Create
    \/ CloneReader
    \/ SendCall
    \/ SenderStep
    \/ \E r \in readers : ReadCall(r)
    \/ \E r \in readers : DistLoadW(r)
    \/ \E r \in readers : DistLoadR(r)
    \/ \E r \in readers : GetCurrentValLoad(r)
    \/ \E r \in readers : GetCurrentValGet(r)
    \/ \E r \in readers : GetCurrentValStore(r)

SpecMR == InitMR /\ [][NextMR]_vars

\* The capacities asked for: the small ones, usize::MAX, and for every
\* element size the largest whose byte length fits a usize and the two after it.
AllocCaps ==
    0..MaxCap \cup {UsizeMax}
        \cup {c \in {(UsizeMax \div size) + d : size \in 1..MaxSize, d \in 0..2} :
                c <= UsizeMax}

\* MessageQueueSender::<T>::new(num_elements) for element types of 0 to
\* MaxSize bytes and the capacities of AllocCaps.
InitAlloc ==
    /\ \E size \in 0..MaxSize : InitQueueOf(0, 0, size)
    /\ q = <<>> /\ hq = NotCalled /\ orig = NoOrigin /\ NoEvaluate

CreateAlloc == \E n \in AllocCaps : \E refused \in BOOLEAN : message_queue(n, refused)

NextAlloc == CreateAlloc

SpecAlloc == InitAlloc /\ [][NextAlloc]_vars

\* One producer, the reader calling read() and available(), and its clone
\* calling available() only (tests: `while rx2.available() == 8192 {}`).
NextObs ==
    \/ Create
    \/ CloneReader
    \/ SendCall
    \/ SenderStep
    \/ ReadCall("rx")
    \/ \E r \in readers : AvailableCall(r)
    \/ \E r \in readers : DistLoadW(r)
    \/ \E r \in readers : DistLoadR(r)
    \/ \E r \in readers : GetCurrentValLoad(r)
    \/ \E r \in readers : GetCurrentValGet(r)
    \/ \E r \in readers : GetCurrentValStore(r)

SpecObs == InitObs /\ [][NextObs]_vars

\* A reader thread that is inside a call takes its next step.
ReaderRun ==
    \E r \in readers :
        \/ DistLoadW(r)
        \/ DistLoadR(r)
        \/ GetCurrentValLoad(r)
        \/ GetCurrentValGet(r)
        \/ GetCurrentValStore(r)
        \/ BlockingSleep(r)

\* One producer and one reader that calls blocking_read.
NextBlocking ==
    \/ Create
    \/ SendCall
    \/ SenderStep
    \/ \E r \in readers : BlockingReadCall(r)
    \/ \E r \in readers : DistLoadW(r)
    \/ \E r \in readers : DistLoadR(r)
    \/ \E r \in readers : GetCurrentValLoad(r)
    \/ \E r \in readers : GetCurrentValGet(r)
    \/ \E r \in readers : GetCurrentValStore(r)
    \/ \E r \in readers : BlockingSleep(r)

\* The reader's thread is scheduled again and again and its sleeps end; the
\* producer sends when it chooses to, or never.
SpecBlocking == InitBlocking /\ [][NextBlocking]_vars /\ WF_vars(ReaderRun)

\* One producer and up to two readers whose handles are created, cloned and
\* dropped while items are sent and read.
NextDrop ==
    \/ Create
    \/ CloneReader
    \/ \E r \in ReaderIds : new_reader(r)
    \/ DropSender
    \/ \E r \in readers : DropReader(r)
    \/ SendCall
    \/ SenderStep
    \/ \E r \in readers : ReadCall(r)
    \/ \E r \in readers : DistLoadW(r)
    \/ \E r \in readers : DistLoadR(r)
    \/ \E r \in readers : GetCurrentValLoad(r)
    \/ \E r \in readers : GetCurrentValGet(r)
    \/ \E r \in readers : GetCurrentValStore(r)

SpecDrop == InitDrop /\ [][NextDrop]_vars

\* ------------------------------------------------ runs of the parsers

SeqsUpTo(S, n) == UNION {[1..k -> S] : k \in 0..n}

Patterns == {<<>>, <<Letter>>, <<Letter, Letter + 1>>}

PeekSizes == 0..MaxPeek \cup {UsizeMax - 1, UsizeMax}

Predicates == {"letters", "strict", "pairs"}

Extractors ==
    {<<"ReaderUntil", p>> : p \in Patterns} \cup {<<"Peeker", n>> : n \in PeekSizes}
        \cup {<<"ConsumerToEnd">>} \cup {<<"Consumer", f>> : f \in Predicates}
        \cup {<<"Match", p>> : p \in Patterns}

Combines == {<<"Combine", pa, pb>> : pa \in Extractors, pb \in Extractors}

\* The parsers one call of a chaining method makes of the parsers of S.
Chained(S) ==
    {read_until(p, e) : p \in S, e \in Patterns}
        \cup {peek(p, n) : p \in S, n \in PeekSizes}
        \cup {consume_to_end(p) : p \in S}
        \cup {consume_while_predicate(p, f) : p \in S, f \in Predicates}

\* The chains of one and of two calls, the latter on two of the extractors.
Chains ==
    Chained(Extractors) \cup Chained(Chained({<<"ConsumerToEnd">>, <<"Peeker", 1>>}))

TryOrs ==
    {<<"TryOr", pa, pb>> :
        pa \in Extractors \cup Combines,
        pb \in {<<"ConsumerToEnd">>, <<"Peeker", 1>>, <<"ReaderUntil", <<Letter>>>>}}

\* A parser, a string of up to MaxStr bytes and a cursor anywhere in it.
InitParser ==
    /\ InitQueue(0, 0) /\ q = <<>> /\ hq = NotCalled /\ orig = NoOrigin
    /\ estr \in SeqsUpTo({Letter, Letter + 1}, MaxStr)
    /\ state \in 0..Len(estr)
    /\ entry = state
    /\ expr \in Extractors \cup Combines \cup Chains \cup TryOrs
    /\ eres = NotEvaluated /\ epc = "ready"

\* A TryOr that treats InvalidState as any other error of pa.
AbortsOnPanicOnly(kind) == kind = "panic"

\* ParserError::InvalidState(_), which TryOr returns at once (as a panic unwinds)
Aborts(kind) == kind \in {"InvalidState", "panic"}

\* expr.evaluate(string, &mut state); of TryOr::evaluate, the evaluation of pa
\* and its `match` up to the call of pb
evaluate ==
    /\ epc = "ready"
    /\ IF expr[1] = "TryOr"
       THEN LET res_a == Evaluate(expr[2], estr, state)
            IN /\ state' = res_a.pos
               /\ IF res_a.kind = "Ok"
                  THEN /\ eres' = Yield("Ok", <<"First", res_a.out>>, res_a.pos)
                       /\ epc' = "done"
                  ELSE IF Aborts(res_a.kind)
                  THEN eres' = res_a /\ epc' = "done"
                  ELSE eres' = eres /\ epc' = "or_b"
       ELSE /\ eres' = Evaluate(expr, estr, state)
            /\ state' = eres'.pos
            /\ epc' = "done"
    /\ UNCHANGED <<estr, expr, entry, queueVars, parserVars>>

\* TryOr::evaluate: `Ok(OneOf::Second(self.pb.evaluate(string, state)?))`
TryOrSecond ==
    /\ epc = "or_b"
    /\ LET res_b == Evaluate(expr[3], estr, state)
       IN /\ eres' = IF res_b.kind = "Ok"
                     THEN Yield("Ok", <<"Second", res_b.out>>, res_b.pos)
                     ELSE res_b
          /\ state' = res_b.pos
    /\ epc' = "done"
    /\ UNCHANGED <<estr, expr, entry, queueVars, parserVars>>

NextParser ==
    \/ evaluate
    \/ TryOrSecond

SpecParser == InitParser /\ [][NextParser]_vars

\* ------------------------------------------------ runs of the decoder

Prefixes(string) == {SubSeq(string, 1, k) : k \in 0..Len(string)}

\* Inputs of from_string: every byte string of up to MaxRaw bytes over the
\* framing bytes and a letter; a request cut anywhere; and request lines whose
\* verb, url and version tokens vary, with and without what follows them.
VerbTokens ==
    {VerbTable[v] : v \in DOMAIN VerbTable}
        \cup {<<>>, <<103, 101, 116>>, <<112, 111, 115, 116>>, <<80, 117, 116>>,
              <<71, 69>>, <<71, 69, 84, 83>>, <<70, 82, 79, 66>>}

VersionTokens ==
    {HTTP11, <<>>, <<72, 84, 84, 80, 47, 49, 46, 48>>, HTTP11 \o <<49>>,
     <<72, 84, 84, 80, 47, 49, 46>>, <<SP>> \o HTTP11, HTTP11 \o <<SP>>,
     <<104, 116, 116, 112, 47, 49, 46, 49>>, HTTP11 \o <<CR>>, <<LF>> \o HTTP11}

RawInputs == SeqsUpTo({CR, LF, SP, COLON, Letter}, MaxRaw)

CutInputs ==
    Prefixes(CRLF \o VerbTable.GET \o <<SP, Slash, Letter, SP>> \o HTTP11 \o CRLF
             \o <<Letter, COLON, SP, Letter>> \o CRLF \o CRLF \o <<Letter>>)

LineInputs ==
    {lead \o v \o <<SP>> \o u \o <<SP>> \o ver \o CRLF \o tail :
        lead \in {<<>>, CRLF},
        v \in VerbTokens,
        u \in {<<>>, <<Slash>>},
        ver \in VersionTokens,
        tail \in {<<>>, CRLF, <<Letter, COLON, Letter>> \o CRLF \o CRLF \o <<Letter>>,
                  <<Letter>> \o CRLF \o CRLF}}

HttpInputs == RawInputs \cup CutInputs \cup LineInputs

InitHttp == InitQueue(0, 0) /\ NoEvaluate /\ q \in HttpInputs /\ hq = NotCalled /\ orig = NoOrigin

\* HttpQuery::from_string(q)
from_string ==
    /\ hq = NotCalled
    /\ hq' = FromString(q)
    /\ UNCHANGED <<q, orig, queueVars, combVars>>

NextHttp == from_string

SpecHttp == InitHttp /\ [][NextHttp]_vars

\* One header line drawn byte by byte, in an otherwise well-formed request.
HeaderLines == SeqsUpTo({COLON, SP, Letter, Letter + 1}, MaxLine) \ {<<>>}

RequestLine == VerbTable.GET \o <<SP, Slash, SP>> \o HTTP11 \o CRLF

InitHeaders ==
    /\ InitQueue(0, 0) /\ NoEvaluate /\ hq = NotCalled /\ orig = NoOrigin
    /\ \E line \in HeaderLines, body \in {<<>>, <<Letter>>} :
          q = RequestLine \o line \o CRLF \o CRLF \o body

SpecHeaders == InitHeaders /\ [][NextHttp]_vars

\* The wire format of a request: 'VERB SP URL SP HTTP/1.1 CRLF
\* (NAME ":" VALUE CRLF)* CRLF BODY', after a run of CR/LF bytes.
RECURSIVE SerialiseHeaders(_)
SerialiseHeaders(hs) ==
    IF hs = <<>> THEN <<>>
    ELSE hs[1].name \o <<COLON>> \o hs[1].value \o CRLF \o SerialiseHeaders(Tail(hs))

Serialise(o) ==
    o.lead \o VerbTable[o.verb] \o <<SP>> \o o.url \o <<SP>> \o HTTP11 \o CRLF
           \o SerialiseHeaders(o.headers) \o CRLF \o o.body

\* Header lists of up to n headers with unique names.
HeaderNames == {<<Letter>>, <<Letter + 1>>, <<Letter, SP, Letter + 1>>}

HeaderValues == {<<>>, <<SP, Letter>>, <<COLON, Letter, COLON>>}

HeaderLists(n) ==
    {hs \in SeqsUpTo([name : HeaderNames, value : HeaderValues], n) :
        \A i, j \in 1..Len(hs) : hs[i].name = hs[j].name => i = j}

Bodies == {<<>>, <<Letter>>, CRLF \o <<Letter, COLON, SP>> \o CRLF}

InitRoundTrip ==
    /\ InitQueue(0, 0) /\ NoEvaluate /\ hq = NotCalled
    /\ orig \in [lead : {<<>>}, verb : DOMAIN VerbTable, url : {<<>>, <<Slash, Letter>>},
                 headers : HeaderLists(MaxHeaders), body : Bodies]
    /\ q = Serialise(orig)

SpecRoundTrip == InitRoundTrip /\ [][NextHttp]_vars

\* A request, well-formed or not, after a run of up to MaxLead CR/LF bytes.
InitLead ==
    /\ InitQueue(0, 0) /\ NoEvaluate /\ hq = NotCalled
    /\ \E w \in SeqsUpTo({CR, LF}, MaxLead), r \in CutInputs \cup LineInputs :
          /\ orig = [NoOrigin EXCEPT !.lead = w]
          /\ q = w \o r

SpecLead == InitLead /\ [][NextHttp]_vars

\* ---------------------------------------------------------------- claims

\* The number of items sent and not yet read.
Unread == Len(sentSeq) - Len(readLog)

SendReturned == spc = "idle" /\ sres \in {"Ok", "MessageQueueFull"}

Returned(r, op) == rpc[r] = "idle" /\ rop[r] = op /\ rres[r][1] # "pending"

\* C1: with one producer and one consumer, the values returned by the
\* successful reads are, in order, a prefix of the values of the successful
\* sends, under every interleaving and also after the indices have wrapped.
C1_Fifo == IsPrefix(ReadVals, sentSeq)

\* C1's case: more items than the ring has slots were sent and read, so both
\* indices have wrapped around.
C1_Wrapped == qstate = "ok" /\ Len(readLog) > len /\ Len(sentSeq) > len

\* C2: a send fails with MessageQueueFull exactly when the distance of the
\* two positions it loaded is len-1 modulo len; and with no read at all the
\* first len-1 sends succeed and the len-th fails.
C2_FullExactly ==
    SendReturned =>
        /\ (sres = "MessageQueueFull") <=> ((sdw - sdr) % len = len - 1)
        /\ Len(readLog) = 0 =>
              /\ sval <= len
              /\ sres = IF sval <= len - 1 THEN "Ok" ELSE "MessageQueueFull"

\* C2's case: nothing was read, len-1 items are queued and the len-th send failed.
C2_FullReached ==
    /\ SendReturned /\ sres = "MessageQueueFull"
    /\ Len(readLog) = 0 /\ sval = len /\ Len(sentSeq) = len - 1 /\ len >= 3

\* C3: a send that fails with MessageQueueFull changed neither index nor any
\* slot, and the items queued are still read unchanged and in order afterwards.
C3_FailedSendStoresNothing ==
    /\ (spc = "idle" /\ sres = "MessageQueueFull") => ~sDirty
    /\ fullAt >= 0 => IsPrefix(ReadVals, sentSeq)

\* C3's case: a send failed and the len-1 items queued then were read later.
C3_ReadAfterFull ==
    qstate = "ok" /\ fullAt >= 0 /\ Len(readLog) >= fullAt + len - 1

\* C4: both indices stay in [0, len) and available() returns a value in [0, len-1].
C4_InRange ==
    qstate = "ok" =>
        /\ write_ptr \in 0..(len - 1)
        /\ read_ptr \in 0..(len - 1)
        /\ \A r \in ReaderIds :
              Returned(r, "available") => rres[r][2] \in 0..(len - 1)

\* C4's case: available() returned len-1 while the write index had wrapped
\* below the read index.
C4_FullAfterWrap ==
    /\ qstate = "ok" /\ Returned("rx", "available") /\ rres["rx"][2] = len - 1
    /\ write_ptr < read_ptr

\* C5: when N sends and M reads have completed and nothing else is in
\* flight, available() returns N - M.
C5_AvailableCounts ==
    \A r \in ReaderIds :
        (Returned(r, "available") /\ quiet[r]) => rres[r][2] = Unread

\* C5's case: a quiescent available() after sends and reads that wrapped the
\* write index below the read index.
C5_QuiescentAfterWrap ==
    /\ qstate = "ok" /\ Returned("rx", "available") /\ quiet["rx"]
    /\ rres["rx"][2] >= 1 /\ Len(readLog) >= 1 /\ write_ptr < read_ptr

\* C6: with one consumer, after is_ready() returned true the consumer's next
\* read() returns Some, whatever the producer does in between.
C6_ReadyThenSome ==
    \A r \in ReaderIds :
        (Returned(r, "read") /\ armed[r]) => rres[r][1] = "Some"

\* C6's case: is_ready() was true, the read returned, and the producer is in
\* the middle of a send.
C6_ReadWhileSending ==
    /\ Returned("rx", "read") /\ armed["rx"] /\ rres["rx"][1] = "Some"
    /\ spc \in {"load_w", "set", "store"}

\* C7: read() returns None only if at some instant of the call no item was
\* unread, and then it changed no index; send() returns MessageQueueFull only
\* if at some instant of the call len-1 items were unread.
C7_NoSpuriousResult ==
    /\ \A r \in ReaderIds :
          (Returned(r, "read") /\ rres[r][1] = "None") => (rSawEmpty[r] /\ ~rDirty[r])
    /\ (spc = "idle" /\ sres = "MessageQueueFull") => sSawFull

\* C7's case: a read returned None although an item was published before it
\* returned (the send completed during the call).
C7_NoneDuringSend ==
    Returned("rx", "read") /\ rres["rx"][1] = "None" /\ Unread > 0

\* C8: message_queue(n) fails with UnvalidSize for n < 2 without mapping
\* anything, with MemoryAllocationFailed when the mapping of n >= 2 slots is
\* refused, and otherwise returns a queue of n slots with a reader, both
\* indices 0, available() = 0 and is_ready() = false.
C8_Creation ==
    qstate # "none" =>
        /\ newArg < 2 => (qstate = "UnvalidSize" /\ mmapCalls = 0 /\ readers = {})
        /\ (newArg >= 2 /\ mmapRefused) =>
              (qstate = "MemoryAllocationFailed" /\ mmapCalls = 1 /\ readers = {})
        /\ (newArg >= 2 /\ ~mmapRefused) =>
              /\ qstate = "ok" /\ len = newArg /\ "rx" \in readers
              /\ DOMAIN store = 0..(len - 1)
              /\ Len(sentSeq) = 0 =>
                    /\ write_ptr = 0 /\ read_ptr = 0
                    /\ \A r \in ReaderIds :
                          /\ Returned(r, "available") => rres[r][2] = 0
                          /\ Returned(r, "is_ready") => rres[r][2] = FALSE

\* C8's case: a queue was created and, before anything was sent, its reader
\* has called is_ready().
C8_FreshQueue ==
    qstate = "ok" /\ Len(sentSeq) = 0 /\ Returned("rx", "is_ready") /\ spc = "idle"

C10_SecondReaderDelivers ==
    [][\A r \in ReaderIds :
         (/\ rpc[r] = "gcv_store" /\ rpc'[r] # "gcv_store"
          /\ Len(readLog) >= 1
          /\ readLog[Len(readLog)].reader # r
          /\ readLog[Len(readLog)].slot = rpos[r]
          /\ readLog[Len(readLog)].val = rval[r]
          /\ read_ptr = NextIndex(rpos[r], len))
         => (/\ rres'[r] = Some(rval[r])
             /\ read_ptr' = read_ptr
             /\ readLog' = Append(readLog, [reader |-> r, slot |-> rpos[r],
                                            val |-> rval[r]]))]_vars

\* C10's case: one item was sent, both readers loaded the same read_ptr and
\* each returned the item of that slot; read_ptr advanced once.
C10_DeliveredTwice ==
    /\ Len(sentSeq) = 1 /\ Len(readLog) = 2
    /\ readLog[1].reader # readLog[2].reader
    /\ readLog[1].slot = readLog[2].slot
    /\ readLog[1].val = sentSeq[1] /\ readLog[2].val = sentSeq[1]
    /\ read_ptr = NextIndex(readLog[1].slot, len)
    /\ rres["rx"] = Some(sentSeq[1]) /\ rres["rx2"] = Some(sentSeq[1])

\* C11: the store is mapped as long as the sender or a reader handle exists
\* and unmapped once none does; no set or get touches it after the munmap;
\* and after the sender was dropped the items it had sent are still in their
\* slots and a surviving reader reads them in order.
C11_StoreLifetime ==
    /\ qstate = "ok" => (mapped <=> (sender = "live" \/ readers # {}))
    /\ ~strayAccess
    /\ (sender = "dropped" /\ \A i \in 1..Len(readLog) : readLog[i].reader = readLog[1].reader)
          => /\ IsPrefix(ReadVals, sentSeq)
             /\ (readers # {} /\ \A r \in ReaderIds : rpc[r] = "idle")
                   => /\ Dist(len, write_ptr, read_ptr) = Unread
                      /\ \A k \in 1..Unread :
                            store[(read_ptr + k - 1) % len] = sentSeq[Len(readLog) + k]

\* C11's case: the sender was dropped before anything was read, and the
\* reader that survived it has read both items it had sent.
C11_DrainedAfterDrop ==
    /\ sender = "dropped" /\ readAtDrop = 0 /\ mapped
    /\ Len(sentSeq) = 2 /\ ReadVals = sentSeq

\* What a request is made of, read off the bytes themselves: the number of
\* leading CR/LF bytes, the position (from 1) of the first occurrence of a
\* pattern at or after a position (0: none), and the request-line tokens.
LeadLen(string) ==
    IF \A i \in 1..Len(string) : string[i] \in {CR, LF} THEN Len(string)
    ELSE (CHOOSE i \in 1..Len(string) :
             /\ string[i] \notin {CR, LF}
             /\ \A j \in 1..(i - 1) : string[j] \in {CR, LF}) - 1

FirstAt(string, from, pat) ==
    LET at == {i \in from..(Len(string) - Len(pat) + 1) :
                  \A k \in 1..Len(pat) : string[i + k - 1] = pat[k]}
    IN IF at = {} THEN 0 ELSE CHOOSE i \in at : \A j \in at : i <= j

Space1 == FirstAt(q, LeadLen(q) + 1, <<SP>>)
Space2 == IF Space1 = 0 THEN 0 ELSE FirstAt(q, Space1 + 1, <<SP>>)
LineEnd == IF Space2 = 0 THEN 0 ELSE FirstAt(q, Space2 + 1, CRLF)

VerbToken == SubSeq(q, LeadLen(q) + 1, Space1 - 1)
ThirdToken == SubSeq(q, Space2 + 1, LineEnd - 1)

\* C12: from_string returns Ok or Err for every input and never panics.
C12_NeverPanics == hq.res # "panic"

\* C15: a request whose third request-line token is not exactly HTTP/1.1
\* fails with InvalidData and yields no query; when the token is HTTP/1.1
\* the parse goes on to the headers, whose outcome is the result.
C15_VersionCheck ==
    (hq # NotCalled /\ LineEnd # 0) =>
        IF ThirdToken # HTTP11
        THEN hq = Failed("InvalidData")
        ELSE hq.res = HeaderLoop(q, LineEnd + 1, <<>>).kind

\* C15's case: a request line whose version is HTTP/1.11 was refused.
C15_LongerVersionRefused ==
    hq.res = "InvalidData" /\ LineEnd # 0 /\ ThirdToken = HTTP11 \o <<49>>

\* C16: the verb is the table's verb whose bytes are exactly the verb token,
\* GET for every other token, and the outcome of the parse is the one of the
\* same request with GET as its verb token.
C16_VerbTable ==
    (hq # NotCalled /\ Space1 # 0) =>
        /\ hq.res = "Ok" =>
              hq.verb = IF \E v \in DOMAIN VerbTable : VerbTable[v] = VerbToken
                        THEN CHOOSE v \in DOMAIN VerbTable : VerbTable[v] = VerbToken
                        ELSE "GET"
        /\ hq.res = FromString(SubSeq(q, 1, LeadLen(q)) \o VerbTable.GET
                               \o SubSeq(q, Space1, Len(q))).res

\* C16's case: the request of verb token `post` was parsed, as a GET.
C16_LowerCaseIsGet ==
    hq.res = "Ok" /\ Space1 # 0 /\ VerbToken = <<112, 111, 115, 116>> /\ hq.verb = "GET"

\* The header line of a request of SpecHeaders, and the position (from 0) of
\* its first ':' at a position > 0 (0: none).
TheLine == SubSeq(q, Len(RequestLine) + 1, FirstAt(q, Len(RequestLine) + 1, CRLF) - 1)

LineColon ==
    IF FirstAt(TheLine, 2, <<COLON>>) = 0 THEN 0 ELSE FirstAt(TheLine, 2, <<COLON>>) - 1

\* C14: a non-empty header line is split at its first ':' at a position > 0,
\* the last byte included: the name is what precedes it, the value all that
\* follows; the parse fails with InvalidData iff the line has no such ':'.
C14_HeaderSplit ==
    hq # NotCalled =>
        IF LineColon = 0
        THEN hq = Failed("InvalidData")
        ELSE /\ hq.res = "Ok"
             /\ DOMAIN hq.headers = {SubSeq(TheLine, 1, LineColon)}
             /\ hq.headers[SubSeq(TheLine, 1, LineColon)]
                   = SubSeq(TheLine, LineColon + 2, Len(TheLine))

\* C17: when a request r parses, r after any run of CR/LF bytes parses to
\* the same verb, url, headers and body.
C17_LeadingCrLfIgnored ==
    LET r == SubSeq(q, Len(orig.lead) + 1, Len(q))
    IN (hq # NotCalled /\ FromString(r).res = "Ok") => hq = FromString(r)

\* C17's case: a request with a header and a body parsed after three CR/LF bytes.
C17_ParsedAfterRun ==
    /\ hq.res = "Ok" /\ Len(orig.lead) >= 3
    /\ hq.headers # <<>> /\ hq.body # <<>> /\ hq.verb = "POST"

\* C18: the serialisation of a request (a verb of the table, headers of
\* unique names, values possibly empty) parses to that verb, url, header
\* mapping and body.
C18_RoundTrip ==
    hq # NotCalled =>
        /\ hq.res = "Ok"
        /\ hq.verb = orig.verb /\ hq.url = orig.url /\ hq.body = orig.body
        /\ DOMAIN hq.headers = {orig.headers[i].name : i \in 1..Len(orig.headers)}
        /\ \A i \in 1..Len(orig.headers) :
              hq.headers[orig.headers[i].name] = orig.headers[i].value

\* C13: when pa of TryOr(pa, pb) fails with a data error, pb is evaluated
\* with the cursor where it was before pa started.
C13_TryOrRollsBack == epc = "or_b" => state = entry

\* C19: ReaderUntil(p), p non-empty, entered anywhere from 0 to the length of
\* the input, returns Ok: the bytes from the entry position to the first
\* occurrence of p at or after it, the cursor at the start of p (out followed
\* by p is the input consumed once p is consumed), or the whole rest with the
\* cursor at the end when p does not occur.
C19_ReaderUntil ==
    (epc = "done" /\ expr[1] = "ReaderUntil" /\ expr[2] # <<>>) =>
        LET k == FirstAt(estr, entry + 1, expr[2])
        IN /\ eres.kind = "Ok"
           /\ IF k # 0
              THEN /\ state = k - 1
                   /\ eres.out \o expr[2] = SubSeq(estr, entry + 1, state + Len(expr[2]))
              ELSE /\ state = Len(estr)
                   /\ eres.out = SubSeq(estr, entry + 1, Len(estr))

\* C20 as stated: Peeker(n) succeeds exactly when n bytes remain, returning
\* them and advancing by n, and otherwise fails with OutOfBoundsAccess and
\* the cursor unchanged; Peeker(n) then Peeker(m) is Peeker(n + m).
C20_PeekerAsStated ==
    /\ (epc = "done" /\ expr[1] = "Peeker") =>
          IF Len(estr) - entry >= expr[2]
          THEN /\ eres.kind = "Ok" /\ state = entry + expr[2]
               /\ eres.out = SubSeq(estr, entry + 1, entry + expr[2])
          ELSE eres.kind = "OutOfBoundsAccess" /\ state = entry
    /\ (/\ epc = "done" /\ expr[1] = "Combine"
        /\ expr[2][1] = "Peeker" /\ expr[3][1] = "Peeker"
        /\ Len(estr) - entry >= expr[2][2] + expr[3][2]) =>
          /\ eres.kind = "Ok"
          /\ eres.out[1] \o eres.out[2] = Peeker(expr[2][2] + expr[3][2], estr, entry).out
          /\ state = Peeker(expr[2][2] + expr[3][2], estr, entry).pos

\* C20, amended: as stated, except that the failure is Overflow when the
\* cursor plus n exceeds usize::MAX, and OutOfBoundsAccess otherwise.
C20_Peeker ==
    /\ (epc = "done" /\ expr[1] = "Peeker") =>
          IF Len(estr) - entry >= expr[2]
          THEN /\ eres.kind = "Ok" /\ state = entry + expr[2]
               /\ eres.out = SubSeq(estr, entry + 1, entry + expr[2])
          ELSE /\ state = entry
               /\ eres.kind = IF entry + expr[2] > UsizeMax THEN "Overflow"
                                                            ELSE "OutOfBoundsAccess"
    /\ (/\ epc = "done" /\ expr[1] = "Combine"
        /\ expr[2][1] = "Peeker" /\ expr[3][1] = "Peeker"
        /\ Len(estr) - entry >= expr[2][2] + expr[3][2]) =>
          /\ eres.kind = "Ok"
          /\ eres.out[1] \o eres.out[2] = Peeker(expr[2][2] + expr[3][2], estr, entry).out
          /\ state = Peeker(expr[2][2] + expr[3][2], estr, entry).pos

\* C20's case: Peeker(usize::MAX) with the cursor past 0 was refused with
\* Overflow and left the cursor where it was.
C20_OverflowRefused ==
    /\ epc = "done" /\ expr = <<"Peeker", UsizeMax>> /\ entry >= 1
    /\ eres.kind = "Overflow" /\ state = entry

\* The slots of the readable range [read_ptr, write_ptr), in ring order.
Readable == {(read_ptr + k) % len : k \in 0..(Dist(len, write_ptr, read_ptr) - 1)}

\* C21: with one producer and one consumer, send writes only the slot at
\* write_ptr, and writes it before the store that advances write_ptr; the
\* slot it writes is neither in the readable range nor the slot a read is
\* copying; so every slot of the readable range holds the value of the send
\* that published it until it is read, and a read copies that value.
C21_SlotOwnership ==
    /\ [](qstate = "ok" =>
            /\ spc = "set" => /\ swptr = write_ptr
                              /\ swptr \notin Readable
                              /\ \A r \in readers :
                                    rpc[r] \in {"gcv_get", "gcv_store"} => rpos[r] # swptr
            /\ spc = "store" => /\ swptr = write_ptr
                                /\ store[swptr] = sval
            /\ Dist(len, write_ptr, read_ptr) = Unread
            /\ \A k \in 1..Unread :
                  store[(read_ptr + k - 1) % len] = sentSeq[Len(readLog) + k]
            /\ \A r \in readers :
                  rpc[r] = "gcv_store" => /\ rpos[r] = read_ptr
                                          /\ rval[r] = sentSeq[Len(readLog) + 1])
    /\ [][(qstate = "ok" /\ store' # store) =>
            /\ spc = "set"
            /\ \A i \in DOMAIN store : i # write_ptr => store'[i] = store[i]
            /\ write_ptr' = write_ptr]_vars

\* C21's case: after the indices have wrapped, the producer has written the
\* slot at write_ptr and not yet published it while the consumer holds the
\* copy of the one unread item, taken from another slot.
C21_WriteBesideCopy ==
    /\ spc = "store" /\ rpc["rx"] = "gcv_store"
    /\ Len(sentSeq) >= len /\ Unread >= 1
    /\ store[swptr] = sval /\ rpos["rx"] # swptr

\* The values sent and not yet returned by a read.
Unconsumed == {sentSeq[i] : i \in 1..Len(sentSeq)} \ {readLog[i].val : i \in 1..Len(readLog)}

\* C22: with one producer and the readers running concurrently, every get of
\* read() targets an index below len whose slot is in the readable range and
\* holds an item sent and not yet consumed; read_ptr never passes write_ptr
\* (the distance between them is the number of unread items), no more reads
\* succeed than sends, and every value returned is a value that was sent.
C22_ReadsWithinSends ==
    qstate = "ok" =>
        /\ \A r \in readers :
              rpc[r] = "gcv_get" => /\ rpos[r] < len
                                    /\ rpos[r] \in Readable
                                    /\ store[rpos[r]] \in Unconsumed
        /\ Len(readLog) <= Len(sentSeq)
        /\ Dist(len, write_ptr, read_ptr) = Unread
        /\ \A i \in 1..Len(readLog) :
              \E j \in 1..Len(sentSeq) : readLog[i].val = sentSeq[j]

\* C23 as stated: available() called through any handle, the clone on a
\* third thread included, returns a value that was the number of unread items
\* at some instant between its call and its return.
C23_AvailableAsStated ==
    \A r \in ReaderIds :
        Returned(r, "available") => rres[r][2] \in seen[r]

\* C23, amended: with one producer and one consumer, available() returns a
\* value in 0..len-1; the value was the number of unread items at some
\* instant of the call when the call is made on the consumer's thread or on
\* the producer's (no send in progress during the call).
C23_Available ==
    \A r \in ReaderIds :
        Returned(r, "available") =>
            /\ rres[r][2] \in 0..(len - 1)
            /\ (r = "rx" \/ txIdle[r]) => rres[r][2] \in seen[r]

\* C23's case: the clone's available(), called between the sends as the
\* producer's thread does, returned while the consumer's reads went on: the
\* count changed during the call and the value returned is one it took.
C23_CountMovedDuringCall ==
    /\ Returned("rx2", "available") /\ txIdle["rx2"]
    /\ Cardinality(seen["rx2"]) >= 2
    /\ rres["rx2"][2] \in seen["rx2"]
    /\ Len(sentSeq) >= 2

\* C24: a successful evaluate of an extractor, or of a composition of
\* extractors with Combine, leaves the cursor at or after its entry position
\* and at or before the end of the input; no evaluate that returns moves the
\* cursor backwards.
C24_CursorMonotonic ==
    (epc = "done" /\ expr[1] # "TryOr") =>
        /\ eres.kind = "Ok" => (entry <= state /\ state <= Len(estr))
        /\ eres.kind # "panic" => entry <= state

\* C24's case: a chain of three extractors entered inside the input has
\* succeeded and moved the cursor forward to the end of the input.
C24_ChainAdvanced ==
    /\ epc = "done" /\ eres.kind = "Ok"
    /\ expr[1] = "Combine" /\ expr[3][1] = "Combine"
    /\ expr[2][1] = "Peeker" /\ expr[3][2][1] = "Consumer"
    /\ 0 < entry /\ entry < state /\ state = Len(estr)

\* C25: TryOr(a, b): when a succeeds the result is First(a's output) and b
\* is not evaluated; when a fails with InvalidState (as Match does, leaving
\* the cursor where it was, when fewer bytes than its pattern remain) that
\* error is returned and b is not evaluated; b is evaluated only after
\* another error of a.
C25_TryOr ==
    expr[1] = "TryOr" =>
        LET res_a == Evaluate(expr[2], estr, entry)
        IN /\ epc = "or_b" => res_a.kind \notin {"Ok", "InvalidState", "panic"}
           /\ (epc = "done" /\ res_a.kind = "Ok") =>
                 /\ eres.kind = "Ok" /\ eres.out[1] = "First"
                 /\ eres.out[2] = res_a.out
                 /\ state = res_a.pos
           /\ (epc = "done" /\ res_a.kind = "InvalidState") =>
                 /\ eres.kind = "InvalidState"
                 /\ state = res_a.pos
                 /\ expr[2][1] = "Match" =>
                       (state = entry /\ Len(estr) - entry < Len(expr[2][2]))
           /\ (epc = "done" /\ eres.kind = "Ok" /\ res_a.kind # "Ok") =>
                 eres.out[1] = "Second"

\* C25's case: a is a Match with fewer bytes left than its pattern has; the
\* TryOr has returned InvalidState with the cursor where it was, although b
\* (ConsumerToEnd) would have succeeded there.
C25_InvalidStateReturned ==
    /\ epc = "done" /\ expr[1] = "TryOr" /\ expr[2][1] = "Match"
    /\ expr[3] = <<"ConsumerToEnd">>
    /\ eres.kind = "InvalidState" /\ state = entry
    /\ Len(estr) - entry = 1

\* The parser a chaining method makes when the extractor pa is added to the
\* receiver pb (Match has no chaining method).
ChainOf(pa, pb) ==
    CASE pa[1] = "ReaderUntil"   -> read_until(pb, pa[2])
      [] pa[1] = "Peeker"        -> peek(pb, pa[2])
      [] pa[1] = "ConsumerToEnd" -> consume_to_end(pb)
      [] pa[1] = "Consumer"      -> consume_while_predicate(pb, pa[2])
      [] OTHER                   -> <<"Combine", pa, pb>>

\* C26: Combine(a, b) evaluates a at the entry cursor and then b at the
\* cursor a left and returns the pair of their outputs; when a fails its
\* error is returned and b is not evaluated (the cursor stays where a left
\* it), when b fails b's error is returned.  The parser a chaining method
\* builds has the added extractor as a and the receiver as b, so it gives
\* the result of the added extractor first and the receiver after it.
C26_Combine ==
    (epc = "done" /\ expr[1] = "Combine") =>
        LET res_a == Evaluate(expr[2], estr, entry)
            res_b == Evaluate(expr[3], estr, res_a.pos)
            built == ChainOf(expr[2], expr[3])
            res   == Evaluate(built, estr, entry)
        IN /\ res_a.kind # "Ok" => (eres = res_a /\ state = res_a.pos)
           /\ (res_a.kind = "Ok" /\ res_b.kind # "Ok") => (eres = res_b /\ state = res_b.pos)
           /\ (res_a.kind = "Ok" /\ res_b.kind = "Ok") =>
                 /\ eres.kind = "Ok"
                 /\ eres.out = <<res_a.out, res_b.out>>
                 /\ state = res_b.pos
           /\ built[1] = "Combine" /\ built[2][1] = expr[2][1] /\ built[3][1] = expr[3][1]
           /\ res.kind = eres.kind /\ res.pos = eres.pos

\* C26's case: p = ConsumerToEnd.peek(1).read_until(b"ab") evaluated on
\* b"bab": ReaderUntil, added last, ran first and took b"b", Peeker took
\* b"a" after it, and ConsumerToEnd, the receiver of the first call, the rest.
C26_LastAddedRunsFirst ==
    /\ epc = "done" /\ eres.kind = "Ok" /\ entry = 0
    /\ estr = <<Letter + 1, Letter, Letter + 1>>
    /\ expr[1] = "Combine" /\ expr[2][1] = "ReaderUntil" /\ expr[3][1] = "Combine"
    /\ expr[2][2] = <<Letter, Letter + 1>>
    /\ expr[3][2][1] = "Peeker" /\ expr[3][3][1] = "ConsumerToEnd"
    /\ eres.out[1] = <<Letter + 1>>
    /\ eres.out[2][1] = <<Letter>>
    /\ eres.out[2][2] = <<Letter + 1>>

\* C27: for every capacity >= 2 and every element size, creation either
\* fails with MemoryAllocationFailed or returns a queue of that capacity
\* whose mapping spans at least capacity x size_of::<T>() bytes: the byte
\* length is never reduced modulo the machine word, and an oversized request
\* is an error, not a crash.
C27_MappingSpansCapacity ==
    (qstate # "none" /\ newArg >= 2) =>
        \/ qstate = "MemoryAllocationFailed"
        \/ /\ qstate = "ok"
           /\ len = newArg
           /\ mapLen >= newArg * elemSize
           /\ DOMAIN store = 0..(len - 1)

====
